---------------------------- MODULE Spec2Model ----------------------------
(***************************************************************************)
(* takenote: the Note Store (NoteManager, src/js/noteManager.js 6-237) and *)
(* the Application Coordinator (TakenoteApp, src/js/noteManager.js         *)
(* 243-509), with the browser objects they use: localStorage, the timer    *)
(* queue, the FileReader and the millisecond clock.                        *)
(*                                                                         *)
(* JavaScript strings are TLA+ strings (Len, SubSeq and \o act on them).   *)
(* null, undefined and '' are all written "" where the code only tests     *)
(* them for truthiness or compares them with a note id.                    *)
(* A timestamp (new Date().toISOString()) is the clock's value.            *)
(***************************************************************************)
EXTENDS Integers, Sequences, FiniteSets, TLC

VARIABLES
    phase,          \* "boot", "constructed" (new NoteManager() returned), "running" (new TakenoteApp() returned), "crashed" (a constructor threw)
    notes,          \* NoteManager.notes
    notesShape,     \* what this.notes holds: "array", or "null" / "object" after JSON.parse of such a value
    activeNoteId,   \* NoteManager.activeNoteId
    localStorage,   \* the two keys 'takenote-notes' and 'takenote-active-id'
    now,            \* Date.now()
    faultsLeft,     \* number of localStorage.setItem calls that may still throw (quota exceeded)
    ret,            \* what the last NoteManager call returned
    currentNoteId,  \* TakenoteApp.currentNoteId
    autoSaveTimeout,\* TakenoteApp.autoSaveTimeout (0 is null)
    timers,         \* handles of the setTimeout callbacks that are scheduled and have not run
    nextTimerId,    \* the handle the next setTimeout returns
    editorContent,  \* what editor.getContent() returns
    reads,          \* FileReader reads started and not completed
    exportData,     \* what the last exportNoteAsText call returned: <<>> (null, or no call) or <<the object>>
    stats,          \* what the last getNoteStats call made on the NoteManager returned: <<>> (no call) or <<the object>>
    toast,          \* feedback shown by the last handler: "none", "success", "error"
    events,         \* number of calls made on the NoteManager or events delivered to the TakenoteApp
    eventLimit,     \* number of events the run may deliver to the TakenoteApp
    lastOp          \* the last operation that ran

vars == <<phase, notes, notesShape, activeNoteId, localStorage, now, faultsLeft, ret,
          currentNoteId, autoSaveTimeout, timers, nextTimerId, editorContent, reads,
          exportData, stats, toast, events, eventLimit, lastOp>>

----------------------------------------------------------------------------
(* Bounds of the model *)

\* events delivered to the application in one run
MaxEvents == 2

\* calls made on a NoteManager in one run
MaxStoreCalls == 1

MaxClock == 2

MaxWriteFailures == 1

----------------------------------------------------------------------------
(* Strings *)

Min(S) == CHOOSE x \in S : \A y \in S : x <= y

Max(S) == CHOOSE x \in S : \A y \in S : x >= y

Char(s, i) == SubSeq(s, i, i)

IsSpace(c) == c \in {" ", "\n", "\t"}

\* the first position from i on, in steps of d, that holds no white space
RECURSIVE SkipSpaces(_, _, _)
SkipSpaces(s, i, d) ==
    IF i < 1 \/ i > Len(s) THEN i
    ELSE IF IsSpace(Char(s, i)) THEN SkipSpaces(s, i + d, d) ELSE i

\* String.prototype.trim
trim(s) ==
    LET first == SkipSpaces(s, 1, 1)
    IN  IF first > Len(s) THEN "" ELSE SubSeq(s, first, SkipSpaces(s, Len(s), -1))

\* content.replace(/<[^>]*>/g, '') from position i: the text up to the next '<'
\* that has a '>' after it is kept, the match ends at the first such '>'
RECURSIVE StripTagsFrom(_, _, _, _)
StripTagsFrom(s, i, opens, closes) ==
    LET p == {k \in opens : k >= i}
        q == {k \in closes : k > Min(p)}
    IN  IF p = {} \/ q = {} THEN SubSeq(s, i, Len(s))
        ELSE SubSeq(s, i, Min(p) - 1) \o StripTagsFrom(s, Min(q) + 1, opens, closes)

StripTags(s) ==
    StripTagsFrom(s, 1, {k \in 1..Len(s) : Char(s, k) = "<"},
                        {k \in 1..Len(s) : Char(s, k) = ">"})

\* s.split('\n'), from position i
RECURSIVE SplitLinesFrom(_, _)
SplitLinesFrom(s, i) ==
    LET nl == {j \in i..Len(s) : Char(s, j) = "\n"}
    IN  IF nl = {} THEN <<SubSeq(s, i, Len(s))>>
        ELSE <<SubSeq(s, i, Min(nl) - 1)>> \o SplitLinesFrom(s, Min(nl) + 1)

SplitLines(s) == SplitLinesFrom(s, 1)

\* s.substring(0, n)
substring0(s, n) == SubSeq(s, 1, IF Len(s) < n THEN Len(s) ELSE n)

LowerOf ==
    ("A" :> "a") @@ ("B" :> "b") @@ ("C" :> "c") @@ ("D" :> "d") @@ ("E" :> "e") @@
    ("F" :> "f") @@ ("G" :> "g") @@ ("H" :> "h") @@ ("I" :> "i") @@ ("J" :> "j") @@
    ("K" :> "k") @@ ("L" :> "l") @@ ("M" :> "m") @@ ("N" :> "n") @@ ("O" :> "o") @@
    ("P" :> "p") @@ ("Q" :> "q") @@ ("R" :> "r") @@ ("S" :> "s") @@ ("T" :> "t") @@
    ("U" :> "u") @@ ("V" :> "v") @@ ("W" :> "w") @@ ("X" :> "x") @@ ("Y" :> "y") @@
    ("Z" :> "z")

\* String.prototype.toLowerCase
RECURSIVE toLowerCaseBetween(_, _, _)
toLowerCaseBetween(s, lo, hi) ==
    IF lo > hi THEN ""
    ELSE IF lo = hi
         THEN LET c == Char(s, lo)
              IN  IF c \in DOMAIN LowerOf THEN LowerOf[c] ELSE c
    ELSE LET mid == (lo + hi) \div 2
         IN  toLowerCaseBetween(s, lo, mid) \o toLowerCaseBetween(s, mid + 1, hi)

toLowerCase(s) == toLowerCaseBetween(s, 1, Len(s))

\* String.prototype.endsWith
endsWith(s, suffix) ==
    Len(suffix) <= Len(s) /\ SubSeq(s, Len(s) - Len(suffix) + 1, Len(s)) = suffix

\* filename.replace(/\.[^/.]+$/, ''): drops a last '.' and what follows it, when
\* at least one character follows and none of them is '/'
StripExtension(filename) ==
    LET dots == {i \in 1..Len(filename) : Char(filename, i) = "."}
    IN  IF dots = {} THEN filename
        ELSE LET d == Max(dots)
             IN  IF d < Len(filename)
                    /\ \A j \in (d + 1)..Len(filename) : Char(filename, j) # "/"
                 THEN SubSeq(filename, 1, d - 1)
                 ELSE filename

\* div.textContent = text; return div.innerHTML  (the HTML fragment serialisation
\* of a text node escapes &, < and >)
RECURSIVE escapeHtmlBetween(_, _, _)
escapeHtmlBetween(text, lo, hi) ==
    IF lo > hi THEN ""
    ELSE IF lo = hi
         THEN LET c == Char(text, lo)
              IN  CASE c = "&" -> "&amp;"
                    [] c = "<" -> "&lt;"
                    [] c = ">" -> "&gt;"
                    [] OTHER -> c
    ELSE LET mid == (lo + hi) \div 2
         IN  escapeHtmlBetween(text, lo, mid) \o escapeHtmlBetween(text, mid + 1, hi)

escapeHtml(text) == escapeHtmlBetween(text, 1, Len(text))

RECURSIVE JoinParagraphs(_)
JoinParagraphs(lines) ==
    IF lines = <<>> THEN ""
    ELSE LET line == trim(Head(lines))
         IN  (IF Len(line) > 0 THEN "<p>" \o escapeHtml(line) \o "</p>" ELSE "")
             \o JoinParagraphs(Tail(lines))

Letters == DOMAIN LowerOf \cup {LowerOf[c] : c \in DOMAIN LowerOf}

Digits == {"0", "1", "2", "3", "4", "5", "6", "7", "8", "9"}

\* the character references the HTML parser decodes in the contents of the model
CharacterReferences ==
    {[name |-> "&amp;", char |-> "&"], [name |-> "&lt;", char |-> "<"],
     [name |-> "&gt;", char |-> ">"], [name |-> "&quot;", char |-> "\""]}

\* the text a run of character data stands for, from position i
RECURSIVE DecodeFrom(_, _, _)
DecodeFrom(s, i, amps) ==
    LET a == {k \in amps : k >= i}
    IN  IF a = {} THEN SubSeq(s, i, Len(s))
        ELSE LET k == Min(a)
                 refs == {r \in CharacterReferences :
                              SubSeq(s, k, Min({Len(s), k + Len(r.name) - 1})) = r.name}
             IN  IF refs = {} THEN SubSeq(s, i, k) \o DecodeFrom(s, k + 1, amps)
                 ELSE LET r == CHOOSE r \in refs : TRUE
                      IN  SubSeq(s, i, k - 1) \o r.char
                             \o DecodeFrom(s, k + Len(r.name), amps)

Decode(s) == DecodeFrom(s, 1, {k \in 1..Len(s) : Char(s, k) = "&"})

\* tempDiv.innerHTML = html; tempDiv.textContent, from position i: the HTML parser
\* takes '<' before a letter, '/', '!' or '?' as the start of markup that ends at
\* the next '>' (or at the end of the input) and everything else as character
\* data; textContent is the character data, nothing is put between two blocks
RECURSIVE TextContentFrom(_, _, _, _)
TextContentFrom(html, i, opens, closes) ==
    LET p == {k \in opens : k >= i}
        q == {k \in closes : k > Min(p)}
    IN  IF p = {} THEN Decode(SubSeq(html, i, Len(html)))
        ELSE IF q = {} THEN Decode(SubSeq(html, i, Min(p) - 1))
        ELSE Decode(SubSeq(html, i, Min(p) - 1))
                 \o TextContentFrom(html, Min(q) + 1, opens, closes)

TextContent(html) ==
    TextContentFrom(html, 1,
        {k \in 1..(Len(html) - 1) :
            Char(html, k) = "<" /\ Char(html, k + 1) \in Letters \cup {"/", "!", "?"}},
        {k \in 1..Len(html) : Char(html, k) = ">"})

\* filename.replace(/[^a-z0-9]/gi, '_').toLowerCase()
RECURSIVE sanitizeFilenameBetween(_, _, _)
sanitizeFilenameBetween(filename, lo, hi) ==
    IF lo > hi THEN ""
    ELSE IF lo = hi
         THEN LET c == Char(filename, lo)
              IN  IF c \in DOMAIN LowerOf THEN LowerOf[c]
                  ELSE IF c \in Letters \cup Digits THEN c ELSE "_"
    ELSE LET mid == (lo + hi) \div 2
         IN  sanitizeFilenameBetween(filename, lo, mid)
                 \o sanitizeFilenameBetween(filename, mid + 1, hi)

sanitizeFilename(filename) == sanitizeFilenameBetween(filename, 1, Len(filename))

\* s.split(/\s+/), from position i
RECURSIVE SplitOnSpacesFrom(_, _)
SplitOnSpacesFrom(s, i) ==
    LET sp == {j \in i..Len(s) : IsSpace(Char(s, j))}
    IN  IF sp = {} THEN <<SubSeq(s, i, Len(s))>>
        ELSE <<SubSeq(s, i, Min(sp) - 1)>>
                 \o SplitOnSpacesFrom(s, SkipSpaces(s, Min(sp), 1))

SplitOnSpaces(s) == SplitOnSpacesFrom(s, 1)

IsTerminator(c) == c \in {".", "!", "?"}

\* s.split(/[.!?]+/), from position i
RECURSIVE SplitOnTerminatorsFrom(_, _)
SplitOnTerminatorsFrom(s, i) ==
    LET ts == {j \in i..Len(s) : IsTerminator(Char(s, j))}
        after == {j \in Min(ts)..Len(s) : ~IsTerminator(Char(s, j))}
    IN  IF ts = {} THEN <<SubSeq(s, i, Len(s))>>
        ELSE <<SubSeq(s, i, Min(ts) - 1)>>
                 \o SplitOnTerminatorsFrom(s, IF after = {} THEN Len(s) + 1 ELSE Min(after))

SplitOnTerminators(s) == SplitOnTerminatorsFrom(s, 1)

----------------------------------------------------------------------------
(* NoteManager *)

NoId == ""

UntitledNote == "Untitled Note"

WelcomeTitle == "Welcome to takenote"

WelcomeContent ==
    "<p>Welcome to takenote! This is your first note.</p><p>You can:</p><ul><li>Format text with the toolbar</li><li>Create new notes</li><li>Upload and download files</li><li>And much more!</li></ul>"

WelcomeContentOnError == "<p>Welcome to takenote! Start taking notes.</p>"

\* Math.random().toString(36).substr(2, 9): the suffixes the generator may return
RandomSuffixes == {"k3x9a", "q7zv2"}

WriteOutcomes == {"ok", "notes-throws", "active-throws"}

\* generateId
generateId(s, rnd) == "note_" \o ToString(s.now) \o "_" \o rnd

\* this.notes.findIndex(note => note.id === id), 1-based; 0 is JavaScript's -1
findIndex(ns, id) ==
    LET hits == {i \in 1..Len(ns) : ns[i].id = id}
    IN  IF hits = {} THEN 0 ELSE Min(hits)

\* getNoteById: defined when HasNote
HasNote(ns, id) == findIndex(ns, id) # 0

getNoteById(ns, id) == ns[findIndex(ns, id)]

\* getActiveNote: a note exists for it when this holds
HasActiveNote(s) == s.activeNoteId # NoId /\ HasNote(s.notes, s.activeNoteId)

\* saveNotesToStorage without its try/catch: the exception reaches the caller
saveNotesToStoragePropagates(s, w) ==
    LET savedNotes == [kind |-> "array", notes |-> s.notes]
        savedActive == [present |-> TRUE, value |-> s.activeNoteId]
    IN  CASE w = "ok" ->
               [s EXCEPT !.localStorage = [notes |-> savedNotes, active |-> savedActive]]
          [] w = "notes-throws" ->
               [s EXCEPT !.faultsLeft = @ - 1, !.ret = "raised"]
          [] w = "active-throws" ->
               [s EXCEPT !.localStorage.notes = savedNotes, !.faultsLeft = @ - 1,
                         !.ret = "raised"]

\* saveNotesToStorage; w is what the two setItem calls do
saveNotesToStorage(s, w) ==
    LET savedNotes == [kind |-> "array", notes |-> s.notes]
        savedActive == [present |-> TRUE, value |-> s.activeNoteId]
    IN  CASE w = "ok" ->
               [s EXCEPT !.localStorage = [notes |-> savedNotes, active |-> savedActive]]
          [] w = "notes-throws" ->
               [s EXCEPT !.faultsLeft = @ - 1]
          [] w = "active-throws" ->
               [s EXCEPT !.localStorage.notes = savedNotes, !.faultsLeft = @ - 1]

\* createNote with the new note put at the end of the collection
createNoteAppends(s, title, content, rnd, tick, w) ==
    LET note == [id |-> generateId(s, rnd),
                 title |-> title,
                 content |-> content,
                 createdAt |-> s.now,
                 updatedAt |-> s.now + tick]
    IN  saveNotesToStorage(
            [s EXCEPT !.notes = @ \o <<note>>,
                      !.activeNoteId = note.id,
                      !.now = @ + tick,
                      !.ret = "note"], w)

\* createNote; tick is the time that passes between the two new Date() reads
createNote(s, title, content, rnd, tick, w) ==
    LET note == [id |-> generateId(s, rnd),
                 title |-> title,
                 content |-> content,
                 createdAt |-> s.now,
                 updatedAt |-> s.now + tick]
    IN  saveNotesToStorage(
            [s EXCEPT !.notes = <<note>> \o @,
                      !.activeNoteId = note.id,
                      !.now = @ + tick,
                      !.ret = "note"], w)

\* { ...note, ...updates, updatedAt: new Date().toISOString() }
MergeNote(note, updates, t) ==
    [f \in DOMAIN note |->
        IF f = "updatedAt" THEN t
        ELSE IF f \in DOMAIN updates THEN updates[f] ELSE note[f]]

\* updateNote with the updated note moved to the head of the collection
updateNoteMovesToFront(s, id, updates, w) ==
    LET noteIndex == findIndex(s.notes, id)
    IN  IF noteIndex # 0
        THEN saveNotesToStorage(
                 [s EXCEPT !.notes = <<MergeNote(s.notes[noteIndex], updates, s.now)>>
                                         \o SubSeq(s.notes, 1, noteIndex - 1)
                                         \o SubSeq(s.notes, noteIndex + 1, Len(s.notes)),
                           !.ret = "note"], w)
        ELSE [s EXCEPT !.ret = "null"]

\* updateNote
updateNote(s, id, updates, w) ==
    LET noteIndex == findIndex(s.notes, id)
    IN  IF noteIndex # 0
        THEN saveNotesToStorage(
                 [s EXCEPT !.notes[noteIndex] = MergeNote(@, updates, s.now),
                           !.ret = "note"], w)
        ELSE [s EXCEPT !.ret = "null"]

\* updateNoteTitle
updateNoteTitle(s, id, newTitle, w) ==
    LET noteIndex == findIndex(s.notes, id)
        title == IF trim(newTitle) # "" THEN trim(newTitle) ELSE UntitledNote
    IN  IF noteIndex # 0
        THEN saveNotesToStorage(
                 [s EXCEPT !.notes[noteIndex] = MergeNote(@, [title |-> title], s.now),
                           !.ret = "note"], w)
        ELSE [s EXCEPT !.ret = "null"]

\* extractFirstLineAsTitle
extractFirstLineAsTitle(content) ==
    IF content = "" THEN ""
    ELSE LET plainText == trim(StripTags(content))
         IN  IF plainText = "" THEN ""
             ELSE LET firstLine == trim(SplitLines(plainText)[1])
                  IN  IF firstLine # "" THEN firstLine ELSE UntitledNote

TitleLimit == 50

\* updateNoteTitleFromContent with the marker added from the limit on
updateNoteTitleFromContentMarksAtLimit(s, id, content, w) ==
    LET firstLine == extractFirstLineAsTitle(content)
        s1 == IF firstLine # ""
              THEN updateNote(s, id,
                       [title |-> substring0(firstLine, TitleLimit)
                                    \o (IF Len(firstLine) >= TitleLimit THEN "..." ELSE ""),
                        content |-> content], w)
              ELSE updateNote(s, id, [content |-> content], w)
    IN  [s1 EXCEPT !.ret = "undefined"]

\* updateNoteTitleFromContent (returns nothing)
updateNoteTitleFromContent(s, id, content, w) ==
    LET firstLine == extractFirstLineAsTitle(content)
        s1 == IF firstLine # ""
              THEN updateNote(s, id,
                       [title |-> substring0(firstLine, TitleLimit)
                                    \o (IF Len(firstLine) > TitleLimit THEN "..." ELSE ""),
                        content |-> content], w)
              ELSE updateNote(s, id, [content |-> content], w)
    IN  [s1 EXCEPT !.ret = "undefined"]

\* this.notes.splice(noteIndex, 1)
Splice(ns, i) == SubSeq(ns, 1, i - 1) \o SubSeq(ns, i + 1, Len(ns))

\* deleteNote with the active id left as it was
deleteNoteKeepsActive(s, id, w) ==
    LET noteIndex == findIndex(s.notes, id)
        rest == Splice(s.notes, noteIndex)
    IN  IF noteIndex # 0
        THEN saveNotesToStorage(
                 [s EXCEPT !.notes = rest,
                           !.activeNoteId = @,
                           !.ret = "true"], w)
        ELSE [s EXCEPT !.ret = "false"]

\* deleteNote with saveNotesToStorage called whether or not the note was found
deleteNoteSavesAlways(s, id, w) ==
    LET noteIndex == findIndex(s.notes, id)
        rest == Splice(s.notes, noteIndex)
    IN  IF noteIndex # 0
        THEN saveNotesToStorage(
                 [s EXCEPT !.notes = rest,
                           !.activeNoteId =
                               IF s.activeNoteId = id
                               THEN (IF Len(rest) > 0 THEN rest[1].id ELSE NoId)
                               ELSE @,
                           !.ret = "true"], w)
        ELSE saveNotesToStorage([s EXCEPT !.ret = "false"], w)

\* deleteNote
deleteNote(s, id, w) ==
    LET noteIndex == findIndex(s.notes, id)
        rest == Splice(s.notes, noteIndex)
    IN  IF noteIndex # 0
        THEN saveNotesToStorage(
                 [s EXCEPT !.notes = rest,
                           !.activeNoteId =
                               IF s.activeNoteId = id
                               THEN (IF Len(rest) > 0 THEN rest[1].id ELSE NoId)
                               ELSE @,
                           !.ret = "true"], w)
        ELSE [s EXCEPT !.ret = "false"]

\* setActiveNote followed by a write of the two keys
setActiveNotePersists(s, id) ==
    IF HasNote(s.notes, id)
    THEN saveNotesToStorage([s EXCEPT !.activeNoteId = id, !.ret = "note"], "ok")
    ELSE [s EXCEPT !.ret = "null"]

\* setActiveNote
setActiveNote(s, id) ==
    IF HasNote(s.notes, id)
    THEN [s EXCEPT !.activeNoteId = id, !.ret = "note"]
    ELSE [s EXCEPT !.ret = "null"]

ImportedNote == "Imported Note"

\* the htmlContent importTextContent builds
TextToHtml(content) ==
    LET htmlContent == JoinParagraphs(SplitLines(content))
    IN  IF htmlContent # "" THEN htmlContent ELSE "<p></p>"

\* importTextContent
importTextContent(s, content, filename, rnd, tick, w) ==
    LET title == IF filename # "" THEN StripExtension(filename) ELSE ImportedNote
    IN  createNote(s, title, TextToHtml(content), rnd, tick, w)

\* exportNoteAsText
exportNoteAsText(s, id) ==
    IF ~HasNote(s.notes, id)
    THEN [s EXCEPT !.exportData = <<>>, !.ret = "null"]
    ELSE LET note == getNoteById(s.notes, id)
             plainText == TextContent(note.content)
         IN  [s EXCEPT !.exportData = <<[title |-> note.title,
                                        content |-> plainText,
                                        filename |-> sanitizeFilename(note.title) \o ".txt"]>>,
                       !.ret = "exportData"]

\* getNoteStats with the characters of the markup counted
getNoteStatsOfMarkup(s, content) ==
    IF content = ""
    THEN [s EXCEPT !.stats = <<[words |-> 0, characters |-> 0, sentences |-> 0]>>,
                   !.ret = "stats"]
    ELSE LET plainText == TextContent(content)
             NotBlank(segment) == Len(trim(segment)) > 0
             characters == Len(content)
             words == IF trim(plainText) # ""
                      THEN Len(SplitOnSpaces(trim(plainText))) ELSE 0
             sentences == IF trim(plainText) # ""
                          THEN Len(SelectSeq(SplitOnTerminators(plainText), NotBlank))
                          ELSE 0
         IN  [s EXCEPT !.stats = <<[words |-> words, characters |-> characters,
                                    sentences |-> sentences]>>,
                       !.ret = "stats"]

\* getNoteStats
getNoteStats(s, content) ==
    IF content = ""
    THEN [s EXCEPT !.stats = <<[words |-> 0, characters |-> 0, sentences |-> 0]>>,
                   !.ret = "stats"]
    ELSE LET plainText == TextContent(content)
             NotBlank(segment) == Len(trim(segment)) > 0
             characters == Len(plainText)
             words == IF trim(plainText) # ""
                      THEN Len(SplitOnSpaces(trim(plainText))) ELSE 0
             sentences == IF trim(plainText) # ""
                          THEN Len(SelectSeq(SplitOnTerminators(plainText), NotBlank))
                          ELSE 0
         IN  [s EXCEPT !.stats = <<[words |-> words, characters |-> characters,
                                    sentences |-> sentences]>>,
                       !.ret = "stats"]

\* loadNotesFromStorage, called by the constructor on notes = [], activeNoteId = null.
\* A TypeError thrown inside the catch block leaves the constructor: ret = "raised".
loadNotesFromStorage(s, rnd, tick, w) ==
    LET savedNotes == s.localStorage.notes
        savedActiveId == IF s.localStorage.active.present
                         THEN s.localStorage.active.value ELSE NoId
        fallback(t) == createNote(t, WelcomeTitle, WelcomeContentOnError, rnd, tick, w)
    IN  CASE savedNotes.kind = "absent" ->
               createNote(s, WelcomeTitle, WelcomeContent, rnd, tick, w)
          [] savedNotes.kind = "unparseable" ->
               \* JSON.parse throws; the catch block seeds the collection
               fallback(s)
          [] savedNotes.kind = "null" ->
               \* null.find / null.length throws, then null.unshift throws in the catch block
               [s EXCEPT !.notesShape = "null", !.ret = "raised"]
          [] savedNotes.kind = "object" ->
               IF savedActiveId # NoId
               THEN \* notes.find is not a function, then notes.unshift is not a function
                    [s EXCEPT !.notesShape = "object", !.ret = "raised"]
               ELSE \* notes.length is undefined: neither branch runs
                    [s EXCEPT !.notesShape = "object", !.ret = "undefined"]
          [] savedNotes.kind = "array" ->
               LET s1 == [s EXCEPT !.notes = savedNotes.notes, !.ret = "undefined"]
                   s2 == IF savedActiveId # NoId /\ HasNote(s1.notes, savedActiveId)
                         THEN [s1 EXCEPT !.activeNoteId = savedActiveId]
                         ELSE IF Len(s1.notes) > 0
                              THEN [s1 EXCEPT !.activeNoteId = s1.notes[1].id]
                              ELSE s1
               IN  IF Len(s2.notes) = 0
                   THEN createNote(s2, WelcomeTitle, WelcomeContent, rnd, tick, w)
                   ELSE s2


----------------------------------------------------------------------------
(* TakenoteApp *)

EmptyEditor == "<p><br></p>"

\* saveCurrentNote that also cancels the pending auto-save timer
saveCurrentNoteCancelsTimer(s, w) ==
    IF s.currentNoteId = NoId THEN s
    ELSE [updateNoteTitleFromContent(s, s.currentNoteId, s.editorContent, w)
             EXCEPT !.timers = {}, !.autoSaveTimeout = 0]

\* saveCurrentNote
saveCurrentNote(s, w) ==
    IF s.currentNoteId = NoId THEN s
    ELSE updateNoteTitleFromContent(s, s.currentNoteId, s.editorContent, w)

\* createNewNote that leaves in the editor what it held
createNewNoteKeepsEditor(s, rnd, tick, w) ==
    LET s1 == createNote(s, UntitledNote, "", rnd, tick, w)
    IN  [s1 EXCEPT !.currentNoteId = s1.notes[1].id,
                   !.toast = "success"]

\* createNewNote
createNewNote(s, rnd, tick, w) ==
    LET s1 == createNote(s, UntitledNote, "", rnd, tick, w)
    IN  [s1 EXCEPT !.currentNoteId = s1.notes[1].id,
                   !.editorContent = EmptyEditor,
                   !.toast = "success"]

\* loadInitialNote
loadInitialNote(s, rnd, tick, w) ==
    IF HasActiveNote(s)
    THEN [s EXCEPT !.currentNoteId = getNoteById(s.notes, s.activeNoteId).id,
                   !.editorContent = getNoteById(s.notes, s.activeNoteId).content]
    ELSE createNewNote(s, rnd, tick, w)

\* switchToNote with the editor loaded before the open note is saved
switchToNoteLoadsFirst(s, noteId, w) ==
    IF ~HasNote(s.notes, noteId) THEN s
    ELSE LET note == getNoteById(s.notes, noteId)
             s0 == [s EXCEPT !.editorContent = note.content]
             s1 == IF s.currentNoteId # NoId /\ s.currentNoteId # noteId
                   THEN saveCurrentNote(s0, w) ELSE s0
             s2 == setActiveNote(s1, noteId)
         IN  [s2 EXCEPT !.currentNoteId = noteId]

\* switchToNote without the call of setActiveNote
switchToNoteKeepsActive(s, noteId, w) ==
    IF ~HasNote(s.notes, noteId) THEN s
    ELSE LET note == getNoteById(s.notes, noteId)
             s1 == IF s.currentNoteId # NoId /\ s.currentNoteId # noteId
                   THEN saveCurrentNote(s, w) ELSE s
         IN  [s1 EXCEPT !.currentNoteId = noteId,
                        !.editorContent = note.content]

\* switchToNote
switchToNote(s, noteId, w) ==
    IF ~HasNote(s.notes, noteId) THEN s
    ELSE LET note == getNoteById(s.notes, noteId)
             s1 == IF s.currentNoteId # NoId /\ s.currentNoteId # noteId
                   THEN saveCurrentNote(s, w) ELSE s
             s2 == setActiveNote(s1, noteId)
         IN  [s2 EXCEPT !.currentNoteId = noteId,
                        !.editorContent = note.content]

\* TakenoteApp.deleteNote with the open note saved first
appDeleteNoteFlushing(s, noteId, rnd, tick, w1, w2) ==
    LET s1 == deleteNote(saveCurrentNote(s, w1), noteId, w1)
    IN  IF s1.ret = "true"
        THEN IF noteId = s1.currentNoteId
             THEN IF HasActiveNote(s1)
                  THEN LET newActiveNote == getNoteById(s1.notes, s1.activeNoteId)
                       IN  [s1 EXCEPT !.currentNoteId = newActiveNote.id,
                                      !.editorContent = newActiveNote.content,
                                      !.toast = "success"]
                  ELSE createNewNote(s1, rnd, tick, w2)
             ELSE [s1 EXCEPT !.toast = "success"]
        ELSE [s1 EXCEPT !.toast = "error"]

\* TakenoteApp.deleteNote that leaves the coordinator on the note it had open
appDeleteNoteKeepsOpen(s, noteId, rnd, tick, w1, w2) ==
    LET s1 == deleteNote(s, noteId, w1)
    IN  IF s1.ret = "true"
        THEN [s1 EXCEPT !.toast = "success"]
        ELSE [s1 EXCEPT !.toast = "error"]

\* TakenoteApp.deleteNote
appDeleteNote(s, noteId, rnd, tick, w1, w2) ==
    LET s1 == deleteNote(s, noteId, w1)
    IN  IF s1.ret = "true"
        THEN IF noteId = s1.currentNoteId
             THEN IF HasActiveNote(s1)
                  THEN LET newActiveNote == getNoteById(s1.notes, s1.activeNoteId)
                       IN  [s1 EXCEPT !.currentNoteId = newActiveNote.id,
                                      !.editorContent = newActiveNote.content,
                                      !.toast = "success"]
                  ELSE createNewNote(s1, rnd, tick, w2)
             ELSE [s1 EXCEPT !.toast = "success"]
        ELSE [s1 EXCEPT !.toast = "error"]

\* editNoteTitle
editNoteTitle(s, noteId, newTitle, w) ==
    LET s1 == updateNoteTitle(s, noteId, newTitle, w)
    IN  [s1 EXCEPT !.toast = IF s1.ret = "note" THEN "success" ELSE "error"]

\* handleContentChange without the clearTimeout
handleContentChangeKeepsTimer(s) ==
    [s EXCEPT !.timers = @ \cup {s.nextTimerId},
              !.autoSaveTimeout = s.nextTimerId,
              !.nextTimerId = @ + 1]

\* handleContentChange: clearTimeout(this.autoSaveTimeout), then setTimeout
handleContentChange(s) ==
    [s EXCEPT !.timers = (@ \ {s.autoSaveTimeout}) \cup {s.nextTimerId},
              !.autoSaveTimeout = s.nextTimerId,
              !.nextTimerId = @ + 1]

AllowedTypes == {"text/plain", "text/markdown"}

AllowedExtensions == {".txt", ".md"}

\* the upload check with both conditions required
FileAcceptedOnBoth(file) ==
    LET hasValidType == file.type \in AllowedTypes
        hasValidExtension == \E ext \in AllowedExtensions :
                                 endsWith(toLowerCase(file.name), ext)
    IN  hasValidType /\ hasValidExtension

\* the check handleFileUpload makes before it starts a read
FileAccepted(file) ==
    LET hasValidType == file.type \in AllowedTypes
        hasValidExtension == \E ext \in AllowedExtensions :
                                 endsWith(toLowerCase(file.name), ext)
    IN  ~(~hasValidType /\ ~hasValidExtension)

\* handleFileUpload, up to reader.readAsText(file)
handleFileUpload(s, file) ==
    IF ~FileAccepted(file)
    THEN [s EXCEPT !.toast = "error"]
    ELSE [s EXCEPT !.reads = Append(@, file)]

\* reader.onload for the i-th pending read
readerOnload(s, i, rnd, tick, w1, w2) ==
    LET file == s.reads[i]
        s1 == importTextContent([s EXCEPT !.reads = Splice(@, i)],
                                file.content, file.name, rnd, tick, w1)
        newNote == s1.notes[1]
        s2 == switchToNote(s1, newNote.id, w2)
    IN  [s2 EXCEPT !.toast = "success"]

\* reader.onerror for the i-th pending read
readerOnerror(s, i) ==
    [s EXCEPT !.reads = Splice(@, i), !.toast = "error"]

\* handleFileDownload with the export made before the open note is saved
handleFileDownloadExportsFirst(s, w) ==
    IF s.currentNoteId = NoId
    THEN [s EXCEPT !.toast = "error"]
    ELSE LET s1 == exportNoteAsText(s, s.currentNoteId)
             s2 == [saveCurrentNote(s1, w) EXCEPT !.ret = s1.ret]
         IN  [s2 EXCEPT !.toast = IF s2.exportData = <<>> THEN "error" ELSE "success"]

\* handleFileDownload: exportData.content and exportData.filename are what the
\* Blob and the link hand to the browser
handleFileDownload(s, w) ==
    IF s.currentNoteId = NoId
    THEN [s EXCEPT !.toast = "error"]
    ELSE LET s1 == saveCurrentNote(s, w)
             s2 == exportNoteAsText(s1, s1.currentNoteId)
         IN  [s2 EXCEPT !.toast = IF s2.exportData = <<>> THEN "error" ELSE "success"]

----------------------------------------------------------------------------
(* The state as one record, and the step that installs a record *)

State ==
    [phase |-> phase, notes |-> notes, notesShape |-> notesShape,
     activeNoteId |-> activeNoteId, localStorage |-> localStorage, now |-> now,
     faultsLeft |-> faultsLeft, ret |-> ret, currentNoteId |-> currentNoteId,
     autoSaveTimeout |-> autoSaveTimeout, timers |-> timers,
     nextTimerId |-> nextTimerId, editorContent |-> editorContent,
     reads |-> reads, exportData |-> exportData, stats |-> stats, toast |-> toast,
     events |-> events]

WithinBounds(s) ==
    /\ s.now <= MaxClock
    /\ s.faultsLeft >= 0

Becomes(s0, name) ==
    \E s \in {s0} :
    /\ WithinBounds(s)
    /\ phase' = s.phase
    /\ notes' = s.notes
    /\ notesShape' = s.notesShape
    /\ activeNoteId' = s.activeNoteId
    /\ localStorage' = s.localStorage
    /\ now' = s.now
    /\ faultsLeft' = s.faultsLeft
    /\ ret' = s.ret
    /\ currentNoteId' = s.currentNoteId
    /\ autoSaveTimeout' = s.autoSaveTimeout
    /\ timers' = s.timers
    /\ nextTimerId' = s.nextTimerId
    /\ editorContent' = s.editorContent
    /\ reads' = s.reads
    /\ exportData' = s.exportData
    /\ stats' = s.stats
    /\ toast' = s.toast
    /\ events' = s.events
    /\ eventLimit' = eventLimit
    /\ lastOp' = name

\* a handler of the application returns: handlers return nothing
Delivers(s, name) == Becomes([s EXCEPT !.ret = "undefined"], name)

\* what a setItem call may do
Outcomes == IF faultsLeft > 0 THEN WriteOutcomes ELSE {"ok"}

----------------------------------------------------------------------------
(* Inputs *)

\* notes a previous run may have left in localStorage
OldNote1 ==
    [id |-> "note_0_k3x9a", title |-> "Groceries", content |-> "<p>milk</p>",
     createdAt |-> 0, updatedAt |-> 0]

OldNote2 ==
    [id |-> "note_0_q7zv2", title |-> "Ideas", content |-> "<p>Ideas</p><p>one</p>",
     createdAt |-> 0, updatedAt |-> 0]

StaleId == "note_0_gone0"

Stored(kind, ns) == [kind |-> kind, notes |-> ns]

StoredId(present, value) == [present |-> present, value |-> value]

\* what the two keys may hold when the page loads
StoredStates ==
    {[notes |-> Stored("absent", <<>>), active |-> StoredId(FALSE, "")],
     [notes |-> Stored("unparseable", <<>>), active |-> StoredId(TRUE, "")],
     [notes |-> Stored("null", <<>>), active |-> StoredId(FALSE, "")],
     [notes |-> Stored("object", <<>>), active |-> StoredId(FALSE, "")],
     [notes |-> Stored("object", <<>>), active |-> StoredId(TRUE, OldNote1.id)],
     [notes |-> Stored("array", <<>>), active |-> StoredId(TRUE, "")],
     [notes |-> Stored("array", <<OldNote1>>), active |-> StoredId(TRUE, OldNote1.id)],
     [notes |-> Stored("array", <<OldNote2, OldNote1>>), active |-> StoredId(TRUE, OldNote1.id)],
     [notes |-> Stored("array", <<OldNote2, OldNote1>>), active |-> StoredId(TRUE, StaleId)],
     [notes |-> Stored("array", <<OldNote2, OldNote1>>), active |-> StoredId(TRUE, "")]}

Ticks == {0, 1}

\* ids a caller may pass: those of the collection and one that no note has
IdArgs == {notes[i].id : i \in 1..Len(notes)} \cup {StaleId}

TitleInputs == {"Plan", "To do"}

EditorInputs == {"", "<p>Hello World</p><p>second</p>"}

Files ==
    {[name |-> "notes", type |-> "text/plain", content |-> "one\n\n two "],
     [name |-> "N.MD", type |-> "", content |-> "a<b"],
     [name |-> "b.pdf", type |-> "application/pdf", content |-> "%PDF"]}

----------------------------------------------------------------------------
(* Process start *)

InitWith(faults, more) ==
    /\ phase = "boot"
    /\ notes = <<>>
    /\ notesShape = "array"
    /\ activeNoteId = NoId
    /\ localStorage \in StoredStates
    /\ now = 1
    /\ faultsLeft = faults
    /\ ret = "undefined"
    /\ currentNoteId = NoId
    /\ autoSaveTimeout = 0
    /\ timers = {}
    /\ nextTimerId = 1
    /\ editorContent = ""
    /\ reads = <<>>
    /\ exportData = <<>>
    /\ stats = <<>>
    /\ toast = "none"
    /\ events = 0
    /\ eventLimit = MaxEvents + more
    /\ lastOp = "none"

\* localStorage.setItem never throws
Init == InitWith(0, 0)

\* localStorage.setItem may throw
InitFaulty == InitWith(MaxWriteFailures, 0)

\* localStorage.setItem never throws, and the run is one event longer
InitLong == InitWith(0, 1)

\* new NoteManager()
NoteManagerConstructor ==
    /\ phase = "boot"
    /\ \E rnd \in RandomSuffixes, tick \in Ticks, w \in Outcomes :
          LET s1 == loadNotesFromStorage(State, rnd, tick, w)
          IN  Becomes([s1 EXCEPT !.phase = IF s1.ret = "raised" THEN "crashed"
                                           ELSE "constructed"],
                      "constructor")

\* the rest of new TakenoteApp(): initializeApp. On a notes value that is no array
\* createNote throws at this.notes.unshift.
InitializeApp ==
    /\ phase = "constructed"
    /\ \E rnd \in RandomSuffixes, tick \in Ticks, w \in Outcomes :
          IF notesShape # "array"
          THEN Becomes([State EXCEPT !.phase = "crashed", !.ret = "raised"],
                       "initializeApp")
          ELSE Becomes([loadInitialNote(State, rnd, tick, w) EXCEPT !.phase = "running"],
                       "initializeApp")

\* the clock advances
Tick ==
    /\ phase \in {"constructed", "running"}
    /\ now < MaxClock
    /\ now' = now + 1
    /\ UNCHANGED <<phase, notes, notesShape, activeNoteId, localStorage, faultsLeft,
                   ret, currentNoteId, autoSaveTimeout, timers, nextTimerId,
                   editorContent, reads, exportData, stats, toast, events, eventLimit,
                   lastOp>>

----------------------------------------------------------------------------
(* The application: the events the browser delivers to TakenoteApp *)

Handler == [State EXCEPT !.toast = "none", !.exportData = <<>>, !.events = @ + 1]

OnNewNote ==
    /\ phase = "running"
    /\ events < eventLimit
    /\ \E rnd \in RandomSuffixes, tick \in Ticks, w \in Outcomes :
          Delivers(createNewNote(Handler, rnd, tick, w), "createNewNote")

SelectNote(noteId) ==
    /\ phase = "running"
    /\ events < eventLimit
    /\ \E w \in Outcomes :
          Delivers(switchToNote(Handler, noteId, w), "switchToNote")

OnNoteSelect == \E noteId \in IdArgs : SelectNote(noteId)

DeleteNote(noteId) ==
    /\ phase = "running"
    /\ events < eventLimit
    /\ \E rnd \in RandomSuffixes, tick \in Ticks, w1 \in Outcomes, w2 \in Outcomes :
          Delivers(appDeleteNote(Handler, noteId, rnd, tick, w1, w2), "deleteNote")

OnNoteDelete == \E noteId \in IdArgs : DeleteNote(noteId)

EditTitle(noteId, newTitle) ==
    /\ phase = "running"
    /\ events < eventLimit
    /\ \E w \in Outcomes :
          Delivers(editNoteTitle(Handler, noteId, newTitle, w), "editNoteTitle")

OnNoteTitleEdit == \E noteId \in IdArgs, newTitle \in TitleInputs : EditTitle(noteId, newTitle)

\* the user edits: the editor holds the new content and calls onContentChange
ContentChange(content) ==
    /\ phase = "running"
    /\ events < eventLimit
    /\ Delivers(handleContentChange([Handler EXCEPT !.editorContent = content]),
                "handleContentChange")

OnContentChange == \E content \in EditorInputs : ContentChange(content)

\* the scheduled auto-save callback with handle h runs
TimerFires(h) ==
    /\ phase = "running"
    /\ events < eventLimit
    /\ h \in timers
    /\ \E w \in Outcomes :
          Delivers(saveCurrentNote([Handler EXCEPT !.timers = @ \ {h}], w),
                   "autoSaveTimer")

AutoSaveTimerFires == \E h \in timers : TimerFires(h)

Upload(file) ==
    /\ phase = "running"
    /\ events < eventLimit
    /\ Delivers(handleFileUpload(Handler, file), "handleFileUpload")

OnFileUpload == \E file \in Files : Upload(file)

ReadCompletes(i) ==
    /\ phase = "running"
    /\ events < eventLimit
    /\ i \in 1..Len(reads)
    /\ \E rnd \in RandomSuffixes, tick \in Ticks, w1 \in Outcomes, w2 \in Outcomes :
          Delivers(readerOnload(Handler, i, rnd, tick, w1, w2), "reader.onload")

ReaderOnload == \E i \in 1..Len(reads) : ReadCompletes(i)

ReadFails(i) ==
    /\ phase = "running"
    /\ events < eventLimit
    /\ i \in 1..Len(reads)
    /\ Delivers(readerOnerror(Handler, i), "reader.onerror")

ReaderOnerror == \E i \in 1..Len(reads) : ReadFails(i)

OnFileDownload ==
    /\ phase = "running"
    /\ events < eventLimit
    /\ \E w \in Outcomes :
          Delivers(handleFileDownload(Handler, w), "handleFileDownload")

\* window 'beforeunload'
BeforeUnload ==
    /\ phase = "running"
    /\ events < eventLimit
    /\ \E w \in Outcomes :
          Delivers(saveCurrentNote(Handler, w), "saveCurrentNote")

\* document 'visibilitychange' with document.hidden
VisibilityHidden ==
    /\ phase = "running"
    /\ events < eventLimit
    /\ \E w \in Outcomes :
          Delivers(saveCurrentNote(Handler, w), "saveCurrentNote")

Next ==
    \/ NoteManagerConstructor
    \/ InitializeApp
    \/ Tick
    \/ OnNewNote
    \/ OnNoteSelect
    \/ OnNoteDelete
    \/ OnNoteTitleEdit
    \/ OnContentChange
    \/ AutoSaveTimerFires
    \/ OnFileUpload
    \/ ReaderOnload
    \/ ReaderOnerror
    \/ OnFileDownload
    \/ BeforeUnload
    \/ VisibilityHidden

Spec == Init /\ [][Next]_vars

\* the application on a localStorage whose setItem may throw
FaultySpec == InitFaulty /\ [][Next]_vars

\* the application, in runs that are one event longer
LongSpec == InitLong /\ [][Next]_vars

----------------------------------------------------------------------------
(* The Note Store alone: a caller makes calls on a constructed NoteManager *)

\* createNote() with its defaults, and with arguments
CreateInputs ==
    {[title |-> UntitledNote, content |-> ""],
     [title |-> " Plan ", content |-> "<p>x</p>"]}

UpdateInputs ==
    {[content |-> "<p>Hello World</p><p>second</p>"],
     [title |-> " Plan "],
     [id |-> "note_9_other"],
     [createdAt |-> 9]}

StoreTitleInputs == {"", "  ", " Plan "}

ImportInputs ==
    {[content |-> "one\n\n two ", filename |-> "a.txt"],
     [content |-> "one\ntwo", filename |-> "b.txt"],
     [content |-> "", filename |-> ""],
     [content |-> "x", filename |-> ".txt"]}

\* the calls a run may make: MaxStoreCalls, and as many more as the run is longer
CallLimit == MaxStoreCalls + (eventLimit - MaxEvents)

Callable ==
    /\ phase = "constructed"
    /\ notesShape = "array"
    /\ events < CallLimit

Call == [State EXCEPT !.exportData = <<>>, !.stats = <<>>, !.events = @ + 1]

CallCreateNote(in) ==
    /\ Callable
    /\ \E rnd \in RandomSuffixes, tick \in Ticks, w \in Outcomes :
          Becomes(createNote(Call, in.title, in.content, rnd, tick, w), "createNote")

CallUpdateNote(id, updates) ==
    /\ Callable
    /\ \E w \in Outcomes :
          Becomes(updateNote(Call, id, updates, w), "updateNote")

CallUpdateNoteTitle(id, newTitle) ==
    /\ Callable
    /\ \E w \in Outcomes :
          Becomes(updateNoteTitle(Call, id, newTitle, w), "updateNoteTitle")

CallUpdateNoteTitleFromContent(id, content) ==
    /\ Callable
    /\ \E w \in Outcomes :
          Becomes(updateNoteTitleFromContent(Call, id, content, w),
                  "updateNoteTitleFromContent")

CallDeleteNote(id) ==
    /\ Callable
    /\ \E w \in Outcomes :
          Becomes(deleteNote(Call, id, w), "deleteNote")

CallSetActiveNote(id) ==
    /\ Callable
    /\ Becomes(setActiveNote(Call, id), "setActiveNote")

CallImportTextContent(in) ==
    /\ Callable
    /\ \E rnd \in RandomSuffixes, tick \in Ticks, w \in Outcomes :
          Becomes(importTextContent(Call, in.content, in.filename, rnd, tick, w),
                  "importTextContent")

CallExportNoteAsText(id) ==
    /\ Callable
    /\ Becomes(exportNoteAsText(Call, id), "exportNoteAsText")

\* on a notes value that is no array every one of these calls throws a TypeError at
\* its first array method (unshift, findIndex, find)
CallOnNonArray ==
    /\ phase = "constructed"
    /\ notesShape # "array"
    /\ Becomes([State EXCEPT !.phase = "crashed", !.ret = "raised"], "call")

StoreCreates == \E in \in CreateInputs : CallCreateNote(in)

StoreUpdates == \E id \in IdArgs, updates \in UpdateInputs : CallUpdateNote(id, updates)

StoreUpdatesTitle ==
    \E id \in IdArgs, newTitle \in StoreTitleInputs : CallUpdateNoteTitle(id, newTitle)

StoreUpdatesTitleFromContent ==
    \E id \in IdArgs, content \in EditorInputs : CallUpdateNoteTitleFromContent(id, content)

StoreDeletes == \E id \in IdArgs : CallDeleteNote(id)

StoreSetsActive == \E id \in IdArgs : CallSetActiveNote(id)

StoreImports == \E in \in ImportInputs : CallImportTextContent(in)

StoreExports == \E id \in IdArgs : CallExportNoteAsText(id)

StoreNext ==
    \/ NoteManagerConstructor
    \/ Tick
    \/ StoreCreates
    \/ StoreUpdates
    \/ StoreUpdatesTitle
    \/ StoreUpdatesTitleFromContent
    \/ StoreDeletes
    \/ StoreSetsActive
    \/ StoreImports
    \/ StoreExports
    \/ CallOnNonArray

StoreSpec == Init /\ [][StoreNext]_vars

\* the Note Store, in runs that are one call longer
LongStoreSpec == InitLong /\ [][StoreNext]_vars

\* the Note Store on a localStorage whose setItem may throw
FaultyStoreSpec == InitFaulty /\ [][StoreNext]_vars

----------------------------------------------------------------------------
(* The Note Store deriving titles: updateNoteTitleFromContent on contents whose
   first line is short, as long as the limit, longer, or missing *)

FiftyCharacters == "The quick brown fox jumps over the lazy dog again."

TitleContentInputs ==
    {"",
     "<p><br></p>",
     "<p>Hello World</p><p>second</p>",
     "<p>Hello World</p>\nsecond",
     "<p>" \o FiftyCharacters \o "</p>",
     "<p>" \o FiftyCharacters \o "!</p>",
     "<h1> " \o FiftyCharacters \o " and on\nsecond line</h1>"}

StoreDerivesTitles ==
    \E id \in IdArgs, content \in TitleContentInputs :
        CallUpdateNoteTitleFromContent(id, content)

TitleNext ==
    \/ NoteManagerConstructor
    \/ Tick
    \/ StoreDerivesTitles
    \/ CallOnNonArray

TitleSpec == Init /\ [][TitleNext]_vars

----------------------------------------------------------------------------
(* The Note Store computing statistics: getNoteStats on contents with and without
   text, white space around the text, and runs of sentence terminators *)

StatsInputs ==
    {"",
     "<p><br></p>",
     "<p> </p>",
     "<p>Hello world.</p>",
     "<p>Hi. </p>",
     "<p>Wait... what?! Yes</p><p>a &amp; b</p>",
     "<p>one</p><p>two  three\nfour</p>"}

\* getNoteStats reads no field of the NoteManager
CallGetNoteStats(content) ==
    /\ phase = "constructed"
    /\ events < CallLimit
    /\ Becomes(getNoteStats(Call, content), "getNoteStats")

StoreComputesStats == \E content \in StatsInputs : CallGetNoteStats(content)

StatsNext ==
    \/ NoteManagerConstructor
    \/ Tick
    \/ StoreComputesStats

StatsSpec == Init /\ [][StatsNext]_vars

----------------------------------------------------------------------------
(* Properties of the Note Store, checked under StoreSpec *)

Constructed == phase = "constructed" /\ notesShape = "array"

NoteIds(ns) == {ns[i].id : i \in 1..Len(ns)}

\* ns2 is ns without its i-th element
RemovedAt(ns, ns2, i) ==
    /\ Len(ns2) = Len(ns) - 1
    /\ \A k \in 1..Len(ns2) : ns2[k] = IF k < i THEN ns[k] ELSE ns[k + 1]

\* C1: after any sequence of NoteManager calls the active id is unset or is the id
\* of a note of the collection.
C1_ActiveIdReferencesNote ==
    Constructed => (activeNoteId = NoId \/ activeNoteId \in NoteIds(notes))

\* C5: deleteNote(id) of an existing note returns true and removes that note; when
\* the note was active, the active id becomes unset if no note remains and the id of
\* the first remaining note otherwise; when it was not active the active id is kept.
C5_DeleteNoteReassignsActive ==
    [][\A id \in IdArgs :
          (lastOp' = "deleteNote" /\ id \in NoteIds(notes) /\ CallDeleteNote(id)) =>
              /\ ret' = "true"
              /\ RemovedAt(notes, notes', findIndex(notes, id))
              /\ (activeNoteId = id /\ Len(notes) = 1) =>
                     (notes' = <<>> /\ activeNoteId' = NoId)
              /\ (activeNoteId = id /\ Len(notes) > 1) =>
                     activeNoteId' = (IF notes[1].id = id THEN notes[2] ELSE notes[1]).id
              /\ activeNoteId # id => activeNoteId' = activeNoteId]_vars

\* the only note, which was active, is deleted: no note is left and the active id is
\* unset, in memory and in localStorage
C5_Witness ==
    /\ lastOp = "deleteNote"
    /\ ret = "true"
    /\ notes = <<>>
    /\ activeNoteId = NoId
    /\ localStorage.notes.notes = <<>>
    /\ localStorage.active.value = ""

\* C6: after any mutation through the store's operations no note has an
\* empty-string title.
C6_TitleNeverEmpty ==
    Constructed => \A i \in 1..Len(notes) : notes[i].title # ""

\* C7: every createNote produces a note whose id differs from the id of every note
\* created before it.
C7_CreateNoteIdIsFresh ==
    [][\A in \in CreateInputs :
          (lastOp' = "createNote" /\ CallCreateNote(in)) =>
              notes'[1].id \notin NoteIds(notes)]_vars

\* C8: whatever localStorage holds, the constructor returns without raising, the
\* collection is a non-empty array and the active id is the id of one of its notes;
\* when nothing is stored, or the stored value does not parse, the collection is the
\* single welcome note.
C8_ConstructorAlwaysSeeds ==
    [][(lastOp' = "constructor" /\ NoteManagerConstructor) =>
          /\ phase' = "constructed"
          /\ notesShape' = "array"
          /\ Len(notes') >= 1
          /\ activeNoteId' # NoId
          /\ activeNoteId' \in NoteIds(notes')
          /\ localStorage.notes.kind \in {"absent", "unparseable"} =>
                 (Len(notes') = 1 /\ notes'[1].title = WelcomeTitle)]_vars

----------------------------------------------------------------------------
(* Properties of the application, checked under Spec, FaultySpec and LongSpec *)

Edited == "<p>Hello World</p><p>second</p>"

\* the persisted collection holds, for the note with this id, this content
PersistedContent(ls, id, content) ==
    /\ ls.notes.kind = "array"
    /\ id \in NoteIds(ls.notes.notes)
    /\ getNoteById(ls.notes.notes, id).content = content

\* the editor holds edits of the open note that no save has stored yet
PendingEdits ==
    /\ timers # {}
    /\ currentNoteId \in NoteIds(notes)
    /\ getNoteById(notes, currentNoteId).content # editorContent

\* what a switch from the open note A to another existing note B does in memory
SwitchFlushesThenLoads(noteId) ==
    /\ currentNoteId \in NoteIds(notes')
    /\ getNoteById(notes', currentNoteId).content = editorContent
    /\ editorContent' = getNoteById(notes, noteId).content
    /\ currentNoteId' = noteId

IsSwitch(noteId) ==
    /\ lastOp' = "switchToNote"
    /\ noteId \in NoteIds(notes)
    /\ currentNoteId # NoId
    /\ noteId # currentNoteId
    /\ SelectNote(noteId)

\* C2 as stated: a switch from the open note A, which has unsaved edits, to a
\* different existing note B sets A's stored and persisted content to the editor
\* content, and loads B's stored content into the editor.
C2_SwitchFlushesAndPersists ==
    [][\A noteId \in IdArgs :
          (PendingEdits /\ IsSwitch(noteId)) =>
              /\ SwitchFlushesThenLoads(noteId)
              /\ PersistedContent(localStorage', currentNoteId, editorContent)]_vars

\* C2, amended: a switch from the open note A to a different existing note B sets
\* A's stored content to the editor content before B's stored content is loaded
\* into the editor; A's persisted content is set too when no localStorage write
\* fails during the switch.
C2_SwitchFlushesBeforeLoad ==
    [][\A noteId \in IdArgs :
          IsSwitch(noteId) =>
              /\ SwitchFlushesThenLoads(noteId)
              /\ faultsLeft' = faultsLeft =>
                     PersistedContent(localStorage', currentNoteId, editorContent)]_vars

\* an edit, then a switch: the edited note is no longer the open one and holds the edit
C2_Witness ==
    /\ lastOp = "switchToNote"
    /\ events = 2
    /\ timers # {}
    /\ \E i \in 1..Len(notes) :
          /\ notes[i].content = Edited
          /\ notes[i].id # currentNoteId
    /\ editorContent # Edited
    /\ editorContent = getNoteById(notes, currentNoteId).content

C4_DebounceSavesOnce ==
    [][/\ Cardinality(timers') <= 1
       /\ \A content \in EditorInputs :
             (lastOp' = "handleContentChange" /\ ContentChange(content)) =>
                 /\ notes' = notes
                 /\ localStorage' = localStorage
                 /\ timers' = {autoSaveTimeout'}
                 /\ timers' \cap timers = {}
       /\ \A h \in timers :
             (lastOp' = "autoSaveTimer" /\ TimerFires(h)) =>
                 /\ timers' = {}
                 /\ currentNoteId \in NoteIds(notes')
                 /\ getNoteById(notes', currentNoteId).content = editorContent
                 /\ PersistedContent(localStorage', currentNoteId, editorContent)]_vars

\* two content changes: the timer of the second one is the only one pending and the
\* edit is not saved yet
C4_Witness ==
    /\ lastOp = "handleContentChange"
    /\ events = 2
    /\ nextTimerId = 3
    /\ timers = {2}
    /\ editorContent = Edited
    /\ getNoteById(notes, currentNoteId).content # Edited
    /\ PersistedContent(localStorage, currentNoteId,
                        getNoteById(notes, currentNoteId).content)

HasAcceptedType(file) == file.type = "text/plain" \/ file.type = "text/markdown"

HasAcceptedSuffix(file) ==
    \/ endsWith(toLowerCase(file.name), ".txt")
    \/ endsWith(toLowerCase(file.name), ".md")

\* C9: an upload of a file with neither an accepted type nor an accepted suffix shows
\* an error, starts no read and leaves the notes, the active id, the open note, the
\* editor and localStorage as they were; a file with an accepted type or an accepted
\* suffix is accepted and its read is started.
C9_UploadValidation ==
    [][\A file \in Files :
          (lastOp' = "handleFileUpload" /\ Upload(file)) =>
              IF ~HasAcceptedType(file) /\ ~HasAcceptedSuffix(file)
              THEN /\ toast' = "error"
                   /\ reads' = reads
                   /\ UNCHANGED <<notes, activeNoteId, currentNoteId, editorContent,
                                  localStorage, timers>>
              ELSE /\ toast' = "none"
                   /\ reads' = Append(reads, file)]_vars

\* a file accepted by its suffix alone is being read when a file with neither is
\* rejected
C9_Witness ==
    /\ lastOp = "handleFileUpload"
    /\ toast = "error"
    /\ Len(reads) = 1
    /\ ~HasAcceptedType(reads[1])
    /\ HasAcceptedSuffix(reads[1])

\* C10: when a read completes, the open note's stored content becomes the editor
\* content, a new note holding the converted text is added at the head of the
\* collection, no other note changes, and the new note becomes the active note, the
\* open note and the editor content; when a read fails, an error is shown and the
\* notes, the active id, the open note, the editor and localStorage are unchanged.
C10_UploadCompletion ==
    [][/\ \A i \in 1..Len(reads) :
             (lastOp' = "reader.onload" /\ ReadCompletes(i)) =>
                 LET k == findIndex(notes, currentNoteId)
                 IN  /\ k # 0
                     /\ Len(notes') = Len(notes) + 1
                     /\ notes'[1].content = TextToHtml(reads[i].content)
                     /\ notes'[k + 1].content = editorContent
                     /\ \A j \in 1..Len(notes) : j # k => notes'[j + 1] = notes[j]
                     /\ activeNoteId' = notes'[1].id
                     /\ currentNoteId' = notes'[1].id
                     /\ editorContent' = notes'[1].content
       /\ \A i \in 1..Len(reads) :
             (lastOp' = "reader.onerror" /\ ReadFails(i)) =>
                 /\ toast' = "error"
                 /\ UNCHANGED <<notes, activeNoteId, currentNoteId, editorContent,
                                localStorage>>]_vars

----------------------------------------------------------------------------
(* Failing writes, checked under FaultyStoreSpec *)

\* a setItem call of this step threw
WriteFailed == faultsLeft' < faultsLeft

\* the step returned what s returns and left the notes and the active id of s
SameResultAndMemory(s) ==
    /\ phase' = "constructed"
    /\ ret' = s.ret
    /\ notes' = s.notes
    /\ activeNoteId' = s.activeNoteId

\* C11: when a localStorage write fails during createNote, updateNote,
\* updateNoteTitle or deleteNote, nothing is raised: the call returns its normal
\* result and the notes and the active id are those the call leaves when the
\* write succeeds.
C11_WriteFailureNotPropagated ==
    [][/\ \A in \in CreateInputs :
             (lastOp' = "createNote" /\ WriteFailed /\ CallCreateNote(in)) =>
                 /\ ret' = "note"
                 /\ \E rnd \in RandomSuffixes, tick \in Ticks :
                       SameResultAndMemory(
                           createNote(Call, in.title, in.content, rnd, tick, "ok"))
       /\ \A id \in IdArgs, updates \in UpdateInputs :
             (lastOp' = "updateNote" /\ WriteFailed /\ CallUpdateNote(id, updates)) =>
                 /\ ret' = "note"
                 /\ SameResultAndMemory(updateNote(Call, id, updates, "ok"))
       /\ \A id \in IdArgs, newTitle \in StoreTitleInputs :
             (lastOp' = "updateNoteTitle" /\ WriteFailed
                  /\ CallUpdateNoteTitle(id, newTitle)) =>
                 /\ ret' = "note"
                 /\ SameResultAndMemory(updateNoteTitle(Call, id, newTitle, "ok"))
       /\ \A id \in IdArgs :
             (lastOp' = "deleteNote" /\ WriteFailed /\ CallDeleteNote(id)) =>
                 /\ ret' = "true"
                 /\ Len(notes') = Len(notes) - 1
                 /\ SameResultAndMemory(deleteNote(Call, id, "ok"))]_vars

\* C11 witness: createNote returned its note although the second setItem threw;
\* localStorage holds the new collection next to the active id of before
C11_Witness ==
    /\ lastOp = "createNote"
    /\ ret = "note"
    /\ faultsLeft < MaxWriteFailures
    /\ Len(notes) = 2
    /\ activeNoteId = notes[1].id
    /\ localStorage.notes = Stored("array", notes)
    /\ localStorage.active = StoredId(TRUE, notes[2].id)

----------------------------------------------------------------------------
(* Calls with the id of no note, checked under StoreSpec *)

\* the call raised nothing and left the notes, the active id and localStorage alone
NothingChanged ==
    /\ phase' = "constructed"
    /\ UNCHANGED <<notes, notesShape, activeNoteId, localStorage, faultsLeft>>

\* C12: updateNote, updateNoteTitle, setActiveNote and exportNoteAsText with an id
\* that no note has return null, deleteNote with such an id returns false; none of
\* them raises, and the notes, the active id and localStorage are left unchanged.
C12_NotFoundChangesNothing ==
    [][\A id \in IdArgs \ NoteIds(notes) :
          /\ \A updates \in UpdateInputs :
                (lastOp' = "updateNote" /\ CallUpdateNote(id, updates)) =>
                    (ret' = "null" /\ NothingChanged)
          /\ \A newTitle \in StoreTitleInputs :
                (lastOp' = "updateNoteTitle" /\ CallUpdateNoteTitle(id, newTitle)) =>
                    (ret' = "null" /\ NothingChanged)
          /\ (lastOp' = "setActiveNote" /\ CallSetActiveNote(id)) =>
                    (ret' = "null" /\ NothingChanged)
          /\ (lastOp' = "exportNoteAsText" /\ CallExportNoteAsText(id)) =>
                    (ret' = "null" /\ exportData' = <<>> /\ NothingChanged)
          /\ (lastOp' = "deleteNote" /\ CallDeleteNote(id)) =>
                    (ret' = "false" /\ NothingChanged)]_vars

\* C12 witness: deleteNote of an unknown id returned false while localStorage still
\* holds the stale active id it was loaded with
C12_Witness ==
    /\ lastOp = "deleteNote"
    /\ ret = "false"
    /\ Len(notes) = 2
    /\ activeNoteId = notes[1].id
    /\ localStorage.active = StoredId(TRUE, StaleId)

----------------------------------------------------------------------------
(* Frame of the Note Store's operations, checked under StoreSpec *)

\* localStorage holds the notes and the active id the step leaves in memory
PersistedAfter ==
    localStorage' = [notes |-> Stored("array", notes'),
                     active |-> StoredId(TRUE, activeNoteId')]

\* C13: updateNote(id, updates) on an existing note gives the note the provided
\* fields and the time of the call as updatedAt, keeps its other fields and its
\* position, leaves every other note and the active id unchanged, and persists.
C13_UpdateNoteFrame ==
    [][\A id \in NoteIds(notes), updates \in UpdateInputs :
          (lastOp' = "updateNote" /\ CallUpdateNote(id, updates)) =>
              LET k == findIndex(notes, id)
              IN  /\ ret' = "note"
                  /\ Len(notes') = Len(notes)
                  /\ \A f \in DOMAIN notes[k] :
                        notes'[k][f] = IF f = "updatedAt" THEN now
                                       ELSE IF f \in DOMAIN updates THEN updates[f]
                                       ELSE notes[k][f]
                  /\ DOMAIN notes'[k] = DOMAIN notes[k]
                  /\ \A j \in 1..Len(notes) : j # k => notes'[j] = notes[j]
                  /\ activeNoteId' = activeNoteId
                  /\ PersistedAfter]_vars

\* C13 witness: the second of two notes got a new content and kept its title, its
\* id and its place
C13_Witness ==
    /\ lastOp = "updateNote"
    /\ ret = "note"
    /\ Len(notes) = 2
    /\ notes[1] = OldNote2
    /\ notes[2] = [OldNote1 EXCEPT !.content = "<p>Hello World</p><p>second</p>",
                                   !.updatedAt = now]
    /\ localStorage.notes = Stored("array", notes)

\* every note but the k-th is where it was and what it was
OthersKeepTheirPlace(k) ==
    /\ Len(notes') = Len(notes)
    /\ \A j \in 1..Len(notes) : j # k => notes'[j] = notes[j]

\* C14: createNote puts the new note, created at the time of the call, at index 0
\* before the notes there were, in their order, makes it the active note and
\* persists; updateNote, updateNoteTitle and updateNoteTitleFromContent keep every
\* note at its index, and deleteNote removes one note and keeps the order of the
\* others: the notes stay in the order of their creation, newest first.
C14_NewestFirstOrderKept ==
    [][/\ \A in \in CreateInputs :
             (lastOp' = "createNote" /\ CallCreateNote(in)) =>
                 /\ Len(notes') = Len(notes) + 1
                 /\ Tail(notes') = notes
                 /\ notes'[1].title = in.title
                 /\ notes'[1].content = in.content
                 /\ notes'[1].createdAt = now
                 /\ activeNoteId' = notes'[1].id
                 /\ PersistedAfter
       /\ \A id \in NoteIds(notes) :
             /\ \A updates \in UpdateInputs :
                   (lastOp' = "updateNote" /\ CallUpdateNote(id, updates)) =>
                       OthersKeepTheirPlace(findIndex(notes, id))
             /\ \A newTitle \in StoreTitleInputs :
                   (lastOp' = "updateNoteTitle" /\ CallUpdateNoteTitle(id, newTitle)) =>
                       /\ OthersKeepTheirPlace(findIndex(notes, id))
                       /\ notes'[findIndex(notes, id)].createdAt = getNoteById(notes, id).createdAt
             /\ \A content \in EditorInputs :
                   (lastOp' = "updateNoteTitleFromContent"
                        /\ CallUpdateNoteTitleFromContent(id, content)) =>
                       /\ OthersKeepTheirPlace(findIndex(notes, id))
                       /\ notes'[findIndex(notes, id)].createdAt = getNoteById(notes, id).createdAt
             /\ (lastOp' = "deleteNote" /\ CallDeleteNote(id)) =>
                   RemovedAt(notes, notes', findIndex(notes, id))]_vars

\* C14 witness: a note created before the two notes the manager was loaded with
C14_Witness ==
    /\ lastOp = "createNote"
    /\ ret = "note"
    /\ Len(notes) = 3
    /\ Tail(notes) = <<OldNote2, OldNote1>>
    /\ notes[1].title = " Plan "
    /\ activeNoteId = notes[1].id
    /\ localStorage.notes = Stored("array", notes)

\* C15: setActiveNote on an existing id changes the active id and nothing else, and
\* writes nothing to localStorage; every operation that persists (createNote,
\* importTextContent, and updateNote, updateNoteTitle, updateNoteTitleFromContent,
\* deleteNote on an existing id) leaves in localStorage the notes and the active id
\* it leaves in memory.
C15_ActiveIdPersistedWithNotes ==
    [][/\ \A id \in NoteIds(notes) :
             (lastOp' = "setActiveNote" /\ CallSetActiveNote(id)) =>
                 /\ ret' = "note"
                 /\ activeNoteId' = id
                 /\ UNCHANGED <<notes, localStorage>>
       /\ \A in \in CreateInputs :
             (lastOp' = "createNote" /\ CallCreateNote(in)) => PersistedAfter
       /\ \A in \in ImportInputs :
             (lastOp' = "importTextContent" /\ CallImportTextContent(in)) => PersistedAfter
       /\ \A id \in NoteIds(notes) :
             /\ \A updates \in UpdateInputs :
                   (lastOp' = "updateNote" /\ CallUpdateNote(id, updates)) => PersistedAfter
             /\ \A newTitle \in StoreTitleInputs :
                   (lastOp' = "updateNoteTitle" /\ CallUpdateNoteTitle(id, newTitle)) =>
                       PersistedAfter
             /\ \A content \in EditorInputs :
                   (lastOp' = "updateNoteTitleFromContent"
                        /\ CallUpdateNoteTitleFromContent(id, content)) => PersistedAfter
             /\ (lastOp' = "deleteNote" /\ CallDeleteNote(id)) => PersistedAfter]_vars

\* C15 witness: after setActiveNote the manager's active id is the first note's
\* while localStorage still names the second
C15_Witness ==
    /\ lastOp = "setActiveNote"
    /\ ret = "note"
    /\ notes = <<OldNote2, OldNote1>>
    /\ activeNoteId = OldNote2.id
    /\ localStorage.active = StoredId(TRUE, OldNote1.id)

----------------------------------------------------------------------------
(* Import followed by export, checked under LongStoreSpec *)

\* the text holds none of the characters escapeHtml rewrites
NoMarkupCharacters(text) ==
    \A k \in 1..Len(text) : Char(text, k) \notin {"<", ">", "&"}

\* C16: for every text without markup characters, one line or several,
\* exportNoteAsText on the note importTextContent has just created from the text
\* returns the text unchanged as its content.
C16_ImportExportRoundTrip ==
    [][\A in \in ImportInputs :
          (/\ lastOp' = "exportNoteAsText"
           /\ lastOp = "importTextContent"
           /\ NoMarkupCharacters(in.content)
           /\ notes[1].content = TextToHtml(in.content)
           /\ CallExportNoteAsText(notes[1].id)) =>
              /\ exportData' # <<>>
              /\ exportData'[1].content = in.content]_vars

----------------------------------------------------------------------------
(* The download request, checked under Spec *)

\* C17: a download request with a note open saves the open note first: the text
\* handed to the browser is the text content of what the editor holds at the
\* request, and afterwards the open note's stored content is that editor content;
\* with no note open the request shows an error and changes nothing.
C17_DownloadFlushesFirst ==
    [][(lastOp' = "handleFileDownload" /\ OnFileDownload) =>
          IF currentNoteId # NoId
          THEN /\ exportData' # <<>>
               /\ exportData'[1].content = TextContent(editorContent)
               /\ HasNote(notes', currentNoteId)
               /\ getNoteById(notes', currentNoteId).content = editorContent
               /\ toast' = "success"
               /\ UNCHANGED <<currentNoteId, editorContent>>
          ELSE /\ toast' = "error"
               /\ exportData' = <<>>
               /\ UNCHANGED <<notes, activeNoteId, localStorage, currentNoteId,
                              editorContent>>]_vars

\* C17 witness: the user typed and asked for the download before any save ran; the
\* file holds the typed text and so does the note
C17_Witness ==
    /\ lastOp = "handleFileDownload"
    /\ events = 2
    /\ toast = "success"
    /\ editorContent = "<p>Hello World</p><p>second</p>"
    /\ exportData # <<>>
    /\ exportData[1].content = "Hello Worldsecond"
    /\ getNoteById(notes, currentNoteId).content = editorContent
    /\ timers # {}

----------------------------------------------------------------------------
(* The coordinator's open note, checked under Spec *)

\* C18: after a delete request for the open note the coordinator has open the note
\* the NoteManager reports active, with that note's stored content in the editor,
\* or, when no note remains, a note created for the purpose; after every delete of
\* an existing note the collection is not empty and currentNoteId is the id of one
\* of its notes; a delete request for an id no note has shows an error and changes
\* nothing.
C18_DeleteLeavesANoteOpen ==
    [][\A noteId \in IdArgs :
          (lastOp' = "deleteNote" /\ DeleteNote(noteId)) =>
              IF noteId \in NoteIds(notes)
              THEN /\ toast' = "success"
                   /\ Len(notes') >= 1
                   /\ HasNote(notes', currentNoteId')
                   /\ (noteId = currentNoteId /\ Len(notes) > 1) =>
                         /\ RemovedAt(notes, notes', findIndex(notes, noteId))
                         /\ HasNote(notes', activeNoteId')
                         /\ currentNoteId' = activeNoteId'
                         /\ editorContent' = getNoteById(notes', activeNoteId').content
                   /\ (noteId = currentNoteId /\ Len(notes) = 1) =>
                         /\ Len(notes') = 1
                         /\ notes'[1].title = UntitledNote
                         /\ notes'[1].content = ""
                         /\ notes'[1].createdAt = now
                         /\ activeNoteId' = notes'[1].id
                         /\ currentNoteId' = notes'[1].id
                   /\ noteId # currentNoteId =>
                         UNCHANGED <<currentNoteId, editorContent>>
              ELSE /\ toast' = "error"
                   /\ UNCHANGED <<notes, activeNoteId, localStorage, currentNoteId,
                                  editorContent>>]_vars

\* C18 witness: the open note of two was deleted and the coordinator shows the one
\* that remains
C18_Witness ==
    /\ lastOp = "deleteNote"
    /\ toast = "success"
    /\ events = 1
    /\ notes = <<OldNote2>>
    /\ activeNoteId = OldNote2.id
    /\ currentNoteId = OldNote2.id
    /\ editorContent = OldNote2.content

\* C19: once the application has started, and after every handler it runs (new
\* note, switch, delete, title edit, content change, auto-save timer, upload and
\* its completion, download, flush on hide or unload), currentNoteId is the
\* NoteManager's active id.
C19_OpenNoteIsActiveNote ==
    phase = "running" => (currentNoteId # NoId /\ currentNoteId = activeNoteId)

\* C19 witness: the user switched to the other note; the coordinator and the
\* NoteManager both name it, while localStorage still names the previous one
C19_Witness ==
    /\ phase = "running"
    /\ lastOp = "switchToNote"
    /\ Len(notes) = 2
    /\ notes[1] = OldNote2
    /\ currentNoteId = OldNote2.id
    /\ activeNoteId = OldNote2.id
    /\ editorContent = OldNote2.content
    /\ localStorage.active = StoredId(TRUE, OldNote1.id)

----------------------------------------------------------------------------
(* Title derivation, checked under TitleSpec *)

\* C20: updateNoteTitleFromContent on an existing note stores the content as given;
\* the title becomes the extracted first line when that has at most 50 characters
\* (50 included), its first 50 characters followed by "..." when it has more, and
\* stays what it was when no text can be extracted.
C20_TitleFromFirstLine ==
    [][\A id \in NoteIds(notes), content \in TitleContentInputs :
          (lastOp' = "updateNoteTitleFromContent"
               /\ CallUpdateNoteTitleFromContent(id, content)) =>
              LET k == findIndex(notes, id)
                  line == extractFirstLineAsTitle(content)
              IN  /\ notes'[k].content = content
                  /\ (line # "" /\ Len(line) <= 50) => notes'[k].title = line
                  /\ Len(line) > 50 =>
                         notes'[k].title = SubSeq(line, 1, 50) \o "..."
                  /\ line = "" => notes'[k].title = notes[k].title
                  /\ notes'[k].id = notes[k].id
                  /\ OthersKeepTheirPlace(k)
                  /\ PersistedAfter]_vars

\* C20 witness: a first line of 51 characters was cut to 50 and marked
C20_Witness ==
    /\ lastOp = "updateNoteTitleFromContent"
    /\ Len(notes) = 1
    /\ notes[1].content = "<p>" \o FiftyCharacters \o "!</p>"
    /\ notes[1].title = FiftyCharacters \o "..."
    /\ localStorage.notes = Stored("array", notes)

\* the content is the block <p>Hello World</p> followed by something more
HelloWorldThenMore(content) ==
    /\ Len(content) > Len("<p>Hello World</p>")
    /\ SubSeq(content, 1, Len("<p>Hello World</p>")) = "<p>Hello World</p>"

\* C21: updateNoteTitleFromContent on a content that starts with the block
\* <p>Hello World</p> and goes on with a further block or line of text sets the
\* title to "Hello World", the text of the first line alone, and stores the
\* content as given.
C21_TitleIsFirstLineOnly ==
    [][\A id \in NoteIds(notes), content \in TitleContentInputs :
          (lastOp' = "updateNoteTitleFromContent"
               /\ HelloWorldThenMore(content)
               /\ CallUpdateNoteTitleFromContent(id, content)) =>
              /\ notes'[findIndex(notes, id)].title = "Hello World"
              /\ notes'[findIndex(notes, id)].content = content]_vars

\* the k-th note keeps its id and its createdAt, and its updatedAt is the time of
\* the call
SameNoteUpdatedNow(k) ==
    /\ notes'[k].id = notes[k].id
    /\ notes'[k].createdAt = notes[k].createdAt
    /\ notes'[k].updatedAt = now

\* C22: no NoteManager call changes the id or the createdAt of a note: updateNote
\* with any fields, updateNoteTitle and updateNoteTitleFromContent keep both and
\* set updatedAt to the time of the call, setActiveNote changes no note, and
\* deleteNote changes none of the notes it leaves.
C22_IdAndCreatedAtImmutable ==
    [][\A id \in NoteIds(notes) :
          /\ \A updates \in UpdateInputs :
                (lastOp' = "updateNote" /\ CallUpdateNote(id, updates)) =>
                    SameNoteUpdatedNow(findIndex(notes, id))
          /\ \A newTitle \in StoreTitleInputs :
                (lastOp' = "updateNoteTitle" /\ CallUpdateNoteTitle(id, newTitle)) =>
                    SameNoteUpdatedNow(findIndex(notes, id))
          /\ \A content \in EditorInputs :
                (lastOp' = "updateNoteTitleFromContent"
                     /\ CallUpdateNoteTitleFromContent(id, content)) =>
                    SameNoteUpdatedNow(findIndex(notes, id))
          /\ (lastOp' = "setActiveNote" /\ CallSetActiveNote(id)) => notes' = notes
          /\ (lastOp' = "deleteNote" /\ CallDeleteNote(id)) =>
                RemovedAt(notes, notes', findIndex(notes, id))]_vars

\* C23: the note createNote returns has createdAt equal to updatedAt, whatever time
\* passes between the two clock reads of the call.
C23_CreatedAtEqualsUpdatedAt ==
    [][\A in \in CreateInputs :
          (lastOp' = "createNote" /\ CallCreateNote(in)) =>
              notes'[1].createdAt = notes'[1].updatedAt]_vars

----------------------------------------------------------------------------
(* Statistics, checked under StatsSpec *)

\* the positions at which a white-space-delimited token of t starts
TokenStarts(t) ==
    {i \in 1..Len(t) : ~IsSpace(Char(t, i)) /\ (i = 1 \/ IsSpace(Char(t, i - 1)))}

\* the positions at which a non-empty segment of t between runs of '.', '!', '?' starts
SegmentStarts(t) ==
    {i \in 1..Len(t) :
        ~IsTerminator(Char(t, i)) /\ (i = 1 \/ IsTerminator(Char(t, i - 1)))}

\* the segments of t between runs of '.', '!', '?' that hold more than white space
NonBlankSegments(t) ==
    LET segments == SplitOnTerminators(t)
    IN  {k \in 1..Len(segments) : trim(segments[k]) # ""}

\* the step returned these statistics
Returned(words, characters, sentences) ==
    stats' = <<[words |-> words, characters |-> characters, sentences |-> sentences]>>

\* the two examples: <p>Hello world.</p> and the empty content
StatsExamples(content) ==
    /\ content = "<p>Hello world.</p>" => Returned(2, 12, 1)
    /\ content = "" => Returned(0, 0, 0)

\* C24 as stated: getNoteStats returns the length of the text without markup as
\* characters, the number of its white-space-delimited tokens as words and the
\* number of its non-empty segments between runs of '.', '!' and '?' as sentences
\* (0 words and sentences when the text is blank); <p>Hello world.</p> gives 2, 12
\* and 1, the empty content gives zeros.
C24_StatsCountNonEmptySegments ==
    [][\A content \in StatsInputs :
          (lastOp' = "getNoteStats" /\ CallGetNoteStats(content)) =>
              LET t == TextContent(content)
              IN  /\ Returned(Cardinality(TokenStarts(t)), Len(t),
                              IF trim(t) = "" THEN 0 ELSE Cardinality(SegmentStarts(t)))
                  /\ StatsExamples(content)]_vars

\* C24, amended: as above, with sentences the number of segments between runs of
\* '.', '!' and '?' that hold a character other than white space.
C24_StatsCountNonBlankSegments ==
    [][\A content \in StatsInputs :
          (lastOp' = "getNoteStats" /\ CallGetNoteStats(content)) =>
              LET t == TextContent(content)
              IN  /\ Returned(Cardinality(TokenStarts(t)), Len(t),
                              IF trim(t) = "" THEN 0
                              ELSE Cardinality(NonBlankSegments(t)))
                  /\ StatsExamples(content)
                  /\ UNCHANGED <<notes, activeNoteId, localStorage>>]_vars

\* C24 witness: for "Hi. " the space after the full stop is a segment and is not
\* counted as a sentence
C24_Witness ==
    /\ lastOp = "getNoteStats"
    /\ ret = "stats"
    /\ stats = <<[words |-> 1, characters |-> 4, sentences |-> 1]>>

----------------------------------------------------------------------------
(* Unsaved edits and the saves that store them, checked under Spec *)

\* the step is a handler that may load the editor, other than the delete of the
\* open note
MayReplaceEditor ==
    \/ lastOp' \in {"createNewNote", "switchToNote", "reader.onload"}
    \/ \E noteId \in IdArgs \ {currentNoteId} :
          lastOp' = "deleteNote" /\ DeleteNote(noteId)

\* C25: whenever a new-note request, the selection of a note (the open one
\* included), a delete of another note or the completion of an upload replaces the
\* editor's content while the editor holds unsaved edits, those edits are by then
\* the stored content of the note that was open.
C25_NoEditLost ==
    [][(PendingEdits /\ MayReplaceEditor /\ editorContent' # editorContent) =>
          /\ currentNoteId \in NoteIds(notes')
          /\ getNoteById(notes', currentNoteId).content = editorContent]_vars

\* the editor shows the stored content of the note that is open after the step
\* (a note created empty is shown as an empty paragraph)
EditorLoadedFromOpenNote ==
    /\ currentNoteId' \in NoteIds(notes')
    /\ LET content == getNoteById(notes', currentNoteId').content
       IN  \/ editorContent' = content
           \/ content = "" /\ editorContent' = EmptyEditor

\* the step stored the editor's content in the note that was open, and in no other
SavedIntoOpenNote ==
    LET k == findIndex(notes, currentNoteId)
    IN  /\ k # 0
        /\ OthersKeepTheirPlace(k)
        /\ notes'[k].id = currentNoteId
        /\ notes'[k].content = editorContent

\* C26: the open note always exists; every step that opens another note or
\* replaces the editor's content other than by the user's typing loads the editor
\* from the note it opens, so the editor never holds one note's edits while another
\* note is open; and every save (auto-save timer, flush on hide or unload, flush on
\* download, flush on a switch to another note) writes the editor's content into
\* the open note and changes no other note.
C26_SavesGoToLoadedNote ==
    [][/\ phase' = "running" => currentNoteId' \in NoteIds(notes')
       /\ (phase = "constructed" /\ phase' = "running") => EditorLoadedFromOpenNote
       /\ (/\ phase = "running"
           /\ lastOp' # "handleContentChange"
           /\ (editorContent' # editorContent \/ currentNoteId' # currentNoteId)) =>
              EditorLoadedFromOpenNote
       /\ (phase = "running"
               /\ lastOp' \in {"autoSaveTimer", "saveCurrentNote", "handleFileDownload"}) =>
              (SavedIntoOpenNote /\ UNCHANGED <<currentNoteId, editorContent>>)
       /\ \A noteId \in IdArgs : IsSwitch(noteId) => SavedIntoOpenNote]_vars

\* C26 witness: the timer was scheduled by an edit of the first note, the user
\* switched to the second, and the timer ran: the first note holds the edit, the
\* second, open, holds its own content
C26_Witness ==
    /\ lastOp = "autoSaveTimer"
    /\ events = 3
    /\ timers = {}
    /\ Len(notes) = 2
    /\ notes[2].id = OldNote1.id
    /\ notes[2].content = Edited
    /\ currentNoteId = OldNote2.id
    /\ notes[1].content = OldNote2.content
    /\ editorContent = OldNote2.content

\* the title updateNoteTitleFromContent derives from a content with text
DerivedTitle(content) ==
    LET line == extractFirstLineAsTitle(content)
    IN  IF Len(line) > 50 THEN SubSeq(line, 1, 50) \o "..." ELSE line

\* the open note's title after the step is the one derived from the editor's
\* content, when that content has text
OpenNoteTitleDerived ==
    LET k == findIndex(notes, currentNoteId)
    IN  /\ k # 0
        /\ extractFirstLineAsTitle(editorContent) # "" =>
               notes'[k].title = DerivedTitle(editorContent)
        /\ extractFirstLineAsTitle(editorContent) = "" =>
               notes'[k].title = notes[k].title

\* C27: a flush (switch, download, tab hidden, unload) cancels no pending auto-save
\* timer, and a pending timer also stays through delete and new-note requests; the
\* timer, when it runs, and every flush save the open note through
\* updateNoteTitleFromContent: when the editor's content has text, the note's title
\* becomes the title derived from it, whatever the title was, a title set by a
\* rename included.
C27_FlushKeepsTimerAndDerivesTitle ==
    [][/\ (phase = "running"
              /\ lastOp' \in {"switchToNote", "handleFileDownload", "saveCurrentNote",
                              "deleteNote", "createNewNote"}) =>
             UNCHANGED <<timers, autoSaveTimeout>>
       /\ (phase = "running"
              /\ lastOp' \in {"autoSaveTimer", "saveCurrentNote", "handleFileDownload"}) =>
             OpenNoteTitleDerived
       /\ \A h \in timers :
             (lastOp' = "autoSaveTimer" /\ TimerFires(h)) => timers' = timers \ {h}
       /\ \A noteId \in IdArgs : IsSwitch(noteId) => OpenNoteTitleDerived]_vars

\* C27 witness: the user typed into the note titled Groceries and the tab was
\* hidden: the flush gave the note the derived title and the timer is still pending
C27_Witness ==
    /\ lastOp = "saveCurrentNote"
    /\ events = 2
    /\ timers = {1}
    /\ autoSaveTimeout = 1
    /\ currentNoteId = OldNote1.id
    /\ editorContent = Edited
    /\ getNoteById(notes, currentNoteId).content = Edited
    /\ getNoteById(notes, currentNoteId).title = "Hello Worldsecond"

=============================================================================
